---- MODULE Spec2Model ----
(***************************************************************************)
(* pred-ripper: windowed, cursor-paginated backfill of match records.      *)
(*                                                                         *)
(* The model follows src/src/main.rs.  One run of `main` is modelled:      *)
(* the work windows are generated from FIRST_EPOCH up to the clock value   *)
(* `now`, a rayon pool of POOL_SIZE threads runs one pagination loop       *)
(* (get_matches_for_work_window) per window, the ctrl-c task may store     *)
(* true into the shared flag at any moment, and after the pool has         *)
(* drained `zip_matches` archives the files written under matches/.        *)
(*                                                                         *)
(* Environment.  The remote API is outside the repository.  Its data is    *)
(* modelled as a function of the requested epoch, fixed the first time an  *)
(* epoch is asked for (variable api); any single request may also fail     *)
(* (non-2xx status or malformed body).  The file system may refuse a       *)
(* File::create or fail a write.  End-time strings are modelled as the     *)
(* six numeric fields of "%Y-%m-%d %H:%M:%S"; a string whose fields are    *)
(* out of range does not parse.                                            *)
(*                                                                         *)
(* rayon.  par_iter().for_each runs each closure on some pool thread, in   *)
(* no fixed order.  A panic inside one closure ends the sequential leaf    *)
(* it was part of (the windows that follow it in that leaf are never       *)
(* run), every other job of the join tree is still executed, and the       *)
(* panic is resumed in the caller of pool.install once all jobs are over.  *)
(***************************************************************************)
EXTENDS Integers, Sequences, FiniteSets, TLC

(* ------------------------------ constants ------------------------------ *)

\* main.rs:22  Thursday, December 1, 2022 08:21:34 AM GMT
FIRST_EPOCH == 1669882894

\* main.rs:23  one hour
WINDOW_SIZE == 3600

\* Number of threads of the rayon pool.  main.rs:24 sets 10; the model runs
\* a smaller pool, and more windows than threads, so that windows wait for
\* a thread.
POOL_SIZE == 1

\* The clock value read by generate_work_windows lies at most this many
\* window sizes (plus one second) after FIRST_EPOCH.
MaxHours == 2

\* fetchCalls and persisted stop growing at this many entries.
MaxCount == 4

\* Number of records in a page of new matches served by the remote API.
PageLen == 3

VARIABLES
    now,            \* chrono::Utc::now().timestamp() read at main.rs:44
    ctrl_c_received,\* the Arc<AtomicBool> of setup_ctrl_c_handler
    mainpc,         \* position of main
    work_windows,   \* Vec<WorkWindow> returned by generate_work_windows
    worker,         \* pool thread -> index of the window it runs, 0 if idle
    wstate,         \* per window: state of its closure / pagination loop
    pc,             \* per window: "top" (before the flag load) or "fetch"
    current_epoch,  \* per window: the loop's cursor
    fetched,        \* per window: the Result bound to `matches` at main.rs:169
    fetchCalls,     \* per window: number of get_matches_since calls
    persisted,      \* per window: batches for which save_matches returned Ok
    files,          \* the matches/ directory: set of [name, content]
    api,            \* remote data: epoch -> kind of page, "Unknown" until asked
    archive,        \* content of matches.zip, a set of files
    archiveCalls    \* number of zip_matches calls

vars == <<now, ctrl_c_received, mainpc, work_windows, worker, wstate, pc,
          current_epoch, fetched, fetchCalls, persisted, files, api, archive,
          archiveCalls>>

(* ------------------------------ helpers -------------------------------- *)

Min(a, b) == IF a < b THEN a ELSE b

\* A saturating increment for the observation counters.
Bump(n) == IF n < MaxCount THEN n + 1 ELSE n

\* Sequence append that stops growing at MaxCount entries.
Record(s, x) == IF Len(s) < MaxCount THEN Append(s, x) ELSE s

(* --------------------------- work windows ------------------------------ *)

\* main.rs:34-39
generate_work_window(starting_epoch) ==
    [start_epoch |-> starting_epoch,
     end_epoch   |-> starting_epoch + WINDOW_SIZE]

\* Variant of WindowIsPast: a window ending exactly at the clock value is
\* pushed too.
WindowIsPast_Inclusive(work_window, clock) == work_window.end_epoch <= clock

\* Variant of WindowIsPast: a window is pushed only if the one after it
\* would end before the clock value too.
WindowIsPast_StopsEarly(work_window, clock) ==
    work_window.end_epoch + WINDOW_SIZE < clock

\* main.rs:47  the test that decides whether a window is pushed
WindowIsPast(work_window, clock) == work_window.end_epoch < clock

\* Variant of GenerateLoop: the next window starts one window size after
\* the end of the window just pushed.
RECURSIVE GenerateLoop_Gaps(_, _, _)
GenerateLoop_Gaps(starting_epoch, clock, acc) ==
    LET work_window == generate_work_window(starting_epoch)
    IN  IF WindowIsPast(work_window, clock)
        THEN GenerateLoop_Gaps(work_window.end_epoch + WINDOW_SIZE, clock,
                               Append(acc, work_window))
        ELSE acc

\* main.rs:45-53  the loop, with the vector built so far
RECURSIVE GenerateLoop(_, _, _)
GenerateLoop(starting_epoch, clock, acc) ==
    LET work_window == generate_work_window(starting_epoch)
    IN  IF WindowIsPast(work_window, clock)
        THEN GenerateLoop(work_window.end_epoch, clock,
                          Append(acc, work_window))
        ELSE acc

\* main.rs:41-55  (clock is the value of chrono::Utc::now() at line 44)
generate_work_windows(starting_epoch, clock) ==
    GenerateLoop(starting_epoch, clock, <<>>)

(* ----------------------------- end times ------------------------------- *)

\* An end_time string "%Y-%m-%d %H:%M:%S" is the record of its six fields.
IsLeapYear(y) == (y % 4 = 0 /\ y % 100 # 0) \/ y % 400 = 0

DaysInMonth(y, m) ==
    CASE m = 2 -> IF IsLeapYear(y) THEN 29 ELSE 28
      [] m \in {4, 6, 9, 11} -> 30
      [] OTHER -> 31

\* NaiveDateTime::parse_from_str succeeds (main.rs:81); otherwise the
\* unwrap on the same line panics.
ParseOk(t) ==
    /\ t.Y \in 1970..9999
    /\ t.M \in 1..12
    /\ t.D \in 1..DaysInMonth(t.Y, t.M)
    /\ t.h \in 0..23
    /\ t.m \in 0..59
    /\ t.s \in 0..60

\* Days between 1970-01-01 and the civil date y-m-d.
DaysFromCivil(y, m, d) ==
    LET yy  == IF m <= 2 THEN y - 1 ELSE y
        era == yy \div 400
        yoe == yy - era * 400
        mp  == IF m > 2 THEN m - 3 ELSE m + 9
        doy == (153 * mp + 2) \div 5 + d - 1
        doe == yoe * 365 + yoe \div 4 - yoe \div 100 + doy
    IN  era * 146097 + doe - 719468

\* main.rs:80-83  the value returned when the string parses
human_to_unix_epoch(t) ==
    DaysFromCivil(t.Y, t.M, t.D) * 86400 + t.h * 3600 + t.m * 60
        + Min(t.s, 59)

(* ----------------------------- remote API ------------------------------ *)

\* The epochs a cursor can take: the window starts and the end times of the
\* last records of the pages the API serves.
Epochs == {FIRST_EPOCH + i * WINDOW_SIZE : i \in 0..MaxHours}

\* End time of the newest match the remote API holds.
LastRecordEpoch == FIRST_EPOCH + MaxHours * WINDOW_SIZE

\* The API's rendering of an instant of 2022-12-01 as an end_time string.
ApiEndTime(e) ==
    LET secs == e - 1669852800
    IN  [Y |-> 2022, M |-> 12, D |-> 1,
         h |-> secs \div 3600, m |-> (secs % 3600) \div 60, s |-> secs % 60]

\* An end_time that is not in the expected format (month 13).
MalformedEndTime == [Y |-> 2022, M |-> 13, D |-> 1, h |-> 8, m |-> 21, s |-> 34]

\* models.rs:5-18  a PredecessorMatch; only end_time is read by the engine.
Match(t) == [end_time |-> t]

\* The JSON array the API answers for `epoch`, by kind of page:
\*   Empty  nothing new since epoch
\*   Adv    PageLen matches, the last one ending WINDOW_SIZE after epoch
\*   Stuck  one match ending exactly at epoch (inclusive boundary)
\*   Bad    two matches, the last with a malformed end_time
Page(kind, epoch) ==
    CASE kind = "Adv" ->
            [i \in 1..PageLen |->
                Match(ApiEndTime(epoch + (i * WINDOW_SIZE) \div PageLen))]
      [] kind = "Stuck" -> <<Match(ApiEndTime(epoch))>>
      [] kind = "Bad" -> <<Match(ApiEndTime(epoch)), Match(MalformedEndTime)>>
      [] OTHER -> <<>>

PageKinds(epoch) ==
    {"Empty", "Stuck", "Bad"}
        \cup (IF epoch + WINDOW_SIZE <= LastRecordEpoch THEN {"Adv"} ELSE {})

\* The API answers `kind` for `epoch`: the answer for an epoch never
\* changes, and the irregular pages (Stuck, Bad) occur at one epoch at most.
ApiAnswers(known, epoch, kind) ==
    /\ kind \in PageKinds(epoch)
    /\ known[epoch] \in {"Unknown", kind}
    /\ kind \in {"Stuck", "Bad"} =>
            \A e \in Epochs : known[e] \in {"Stuck", "Bad"} => e = epoch

\* main.rs:61-74  Ok(matches) on a 2xx status with a well-formed body,
\* Err otherwise.
get_matches_since(epoch, kind, requestOk) ==
    IF requestOk
    THEN [ok |-> TRUE, matches |-> Page(kind, epoch)]
    ELSE [ok |-> FALSE, matches |-> <<>>]

(* ----------------------------- persistence ----------------------------- *)

\* File::create followed by a complete write: the file is replaced.
WriteFile(fs, name, content) ==
    {f \in fs : f.name # name} \cup {[name |-> name, content |-> content]}

\* Variant of FileName: the file is named by the first end time alone.
FileName_FirstOnly(matches) ==
    <<human_to_unix_epoch(matches[1].end_time),
      human_to_unix_epoch(matches[1].end_time)>>

\* main.rs:100-103  "matches/{first}-{last}.json"
FileName(matches) ==
    <<human_to_unix_epoch(matches[1].end_time),
      human_to_unix_epoch(matches[Len(matches)].end_time)>>

\* main.rs:96-116  io is what the file system does: "ok", "create_err"
\* (File::create fails) or "write_err" (to_writer fails on the created,
\* truncated file).  The unwraps of human_to_unix_epoch panic first.
save_matches(matches, io, fs) ==
    IF \/ ~ParseOk(matches[1].end_time)
       \/ ~ParseOk(matches[Len(matches)].end_time)
    THEN [result |-> "Panic", files |-> fs]
    ELSE CASE io = "create_err" -> [result |-> "Err", files |-> fs]
           [] io = "write_err" ->
                [result |-> "Err",
                 files |-> WriteFile(fs, FileName(matches), <<>>)]
           [] OTHER ->
                [result |-> "Ok",
                 files |-> WriteFile(fs, FileName(matches), matches)]

(* --------------------------- pagination loop --------------------------- *)

\* Variant of AfterSave: the loop stops after the first saved batch.
AfterSave_StopsEarly(cursor, matches, saved) ==
    CASE saved.result = "Ok" ->
            [state |-> "Exhausted",
             cursor |-> human_to_unix_epoch(matches[Len(matches)].end_time),
             files |-> saved.files, saved |-> TRUE]
      [] saved.result = "Err" ->
            [state |-> "IoError", cursor |-> cursor,
             files |-> saved.files, saved |-> FALSE]
      [] OTHER ->
            [state |-> "ParsePanic", cursor |-> cursor,
             files |-> saved.files, saved |-> FALSE]

\* Variant of AfterSave: the cursor is not moved after a saved batch.
AfterSave_KeepsCursor(cursor, matches, saved) ==
    CASE saved.result = "Ok" ->
            [state |-> "Running", cursor |-> cursor,
             files |-> saved.files, saved |-> TRUE]
      [] saved.result = "Err" ->
            [state |-> "IoError", cursor |-> cursor,
             files |-> saved.files, saved |-> FALSE]
      [] OTHER ->
            [state |-> "ParsePanic", cursor |-> cursor,
             files |-> saved.files, saved |-> FALSE]

\* main.rs:180-181  after save_matches: on Ok the cursor moves to the end
\* time of the last match and the loop goes on; Err is returned by `?`
\* from the loop (state "IoError": the unwrap of main.rs:233 then panics);
\* a panic of human_to_unix_epoch unwinds (state "ParsePanic").
AfterSave(cursor, matches, saved) ==
    CASE saved.result = "Ok" ->
            [state |-> "Running",
             cursor |-> human_to_unix_epoch(matches[Len(matches)].end_time),
             files |-> saved.files, saved |-> TRUE]
      [] saved.result = "Err" ->
            [state |-> "IoError", cursor |-> cursor,
             files |-> saved.files, saved |-> FALSE]
      [] OTHER ->
            [state |-> "ParsePanic", cursor |-> cursor,
             files |-> saved.files, saved |-> FALSE]

\* main.rs:182-185  an empty page: warn and break.
AfterEmpty(cursor, fs) ==
    [state |-> "Exhausted", cursor |-> cursor, files |-> fs, saved |-> FALSE]

\* Variant of AfterError: the fetch error is returned with `?`, like the
\* error of save_matches.
AfterError_Propagates(cursor, fs) ==
    [state |-> "IoError", cursor |-> cursor, files |-> fs, saved |-> FALSE]

\* Variant of AfterError: the loop goes on and asks again.
AfterError_Retries(cursor, fs) ==
    [state |-> "Running", cursor |-> cursor, files |-> fs, saved |-> FALSE]

\* main.rs:186-193  a fetch error: warn, print and break; the loop then
\* returns Ok(()) at main.rs:196.
AfterError(cursor, fs) ==
    [state |-> "Failed", cursor |-> cursor, files |-> fs, saved |-> FALSE]

\* main.rs:169-193  one loop body after the flag check, for the response
\* of get_matches_since(cursor): the loop's state, cursor and the files
\* afterwards, and whether a batch was saved.
LoopBody(cursor, response, io, fs) ==
    IF response.ok
    THEN IF Len(response.matches) > 0
         THEN AfterSave(cursor, response.matches,
                        save_matches(response.matches, io, fs))
         ELSE AfterEmpty(cursor, fs)
    ELSE AfterError(cursor, fs)

(* ------------------------------ the run -------------------------------- *)

Windows == 1..Len(work_windows)
Threads == 1..POOL_SIZE

\* The clock values tried: on and just after each window boundary.
NowChoices ==
    {FIRST_EPOCH + k * WINDOW_SIZE + d : k \in 1..MaxHours, d \in {0, 1}}

\* The value of `matches` before the first request.
NoResponse == [ok |-> TRUE, matches |-> <<>>]

\* main.rs:216 has run: the windows exist.
Generated == mainpc \in {"pool", "zip", "done", "panicked"} \/ archiveCalls > 0

Panicked(w) == wstate[w] \in {"IoError", "ParsePanic"}

\* The loop of window w returned or unwound.
Terminal(w) ==
    wstate[w] \in {"Exhausted", "Cancelled", "Failed", "IoError", "ParsePanic"}

\* The process is gone: main returned or panicked.
Exited == mainpc \in {"done", "failed", "panicked"}

Init ==
    /\ now \in NowChoices
    /\ ctrl_c_received = FALSE
    /\ mainpc = "start"
    /\ work_windows = <<>>
    /\ worker = [t \in Threads |-> 0]
    /\ wstate = <<>>
    /\ pc = <<>>
    /\ current_epoch = <<>>
    /\ fetched = <<>>
    /\ fetchCalls = <<>>
    /\ persisted = <<>>
    /\ files = {}
    /\ api = [e \in Epochs |-> "Unknown"]
    /\ archive = {}
    /\ archiveCalls = 0

\* main.rs:207-223  the matches directory is recreated (an IoError makes
\* main return Err), the ctrl-c task is spawned, the windows are generated
\* and the pool is built; main then blocks in pool.install.
Start ==
    /\ mainpc = "start"
    /\ \E dirOk \in BOOLEAN :
        IF dirOk
        THEN /\ mainpc' = "pool"
             /\ work_windows' = generate_work_windows(FIRST_EPOCH, now)
             /\ wstate' = [w \in 1..Len(work_windows') |-> "Pending"]
             /\ pc' = [w \in 1..Len(work_windows') |-> "top"]
             /\ current_epoch' =
                    [w \in 1..Len(work_windows') |-> work_windows'[w].start_epoch]
             /\ fetched' = [w \in 1..Len(work_windows') |-> NoResponse]
             /\ fetchCalls' = [w \in 1..Len(work_windows') |-> 0]
             /\ persisted' = [w \in 1..Len(work_windows') |-> <<>>]
        ELSE /\ mainpc' = "failed"
             /\ UNCHANGED <<work_windows, wstate, pc, current_epoch,
                            fetched, fetchCalls, persisted>>
    /\ UNCHANGED <<now, ctrl_c_received, worker, files, api, archive,
                   archiveCalls>>

\* Variant of CtrlC: every signal flips the flag.
CtrlC_Toggles ==
    /\ mainpc \in {"pool", "zip"}
    /\ ctrl_c_received' = ~ctrl_c_received
    /\ UNCHANGED <<now, mainpc, work_windows, worker, wstate, pc,
                   current_epoch, fetched, fetchCalls, persisted, files, api, archive,
                   archiveCalls>>

\* main.rs:88-92  the signal task stores true, once.
CtrlC ==
    /\ mainpc \in {"pool", "zip"}
    /\ ctrl_c_received = FALSE
    /\ ctrl_c_received' = TRUE
    /\ UNCHANGED <<now, mainpc, work_windows, worker, wstate, pc,
                   current_epoch, fetched, fetchCalls, persisted, files, api, archive,
                   archiveCalls>>

\* Variant of ThreadFree: a thread takes a job whatever it is running.
ThreadFree_Always(t) == TRUE

\* A pool thread can take a job only when it runs none.
ThreadFree(t) == worker[t] = 0

\* Variant of ClosureRuns: the closure does not look at the flag.
ClosureRuns_Always(flag) == TRUE

\* main.rs:232  the closure starts the loop only if the flag reads false.
ClosureRuns(flag) == ~flag

\* main.rs:231-234 and 158-160  a pool thread takes the closure of a window
\* that has not run yet.
Dispatch(t, w) ==
    /\ mainpc = "pool"
    /\ ThreadFree(t)
    /\ wstate[w] = "Pending"
    /\ IF ClosureRuns(ctrl_c_received)
       THEN /\ wstate' = [wstate EXCEPT ![w] = "Running"]
            /\ pc' = [pc EXCEPT ![w] = "top"]
            /\ current_epoch' =
                   [current_epoch EXCEPT ![w] = work_windows[w].start_epoch]
            /\ worker' = [worker EXCEPT ![t] = w]
       ELSE /\ wstate' = [wstate EXCEPT ![w] = "Skipped"]
            /\ UNCHANGED <<pc, current_epoch, worker>>
    /\ UNCHANGED <<now, ctrl_c_received, mainpc, work_windows, fetched,
                   fetchCalls, persisted, files, api, archive, archiveCalls>>

\* The thread that ran window w takes no part in it any more.
Release(w) == [t \in Threads |-> IF worker[t] = w THEN 0 ELSE worker[t]]

\* Variant of LoopBreaks: the loop does not look at the flag.
LoopBreaks_Never(flag) == FALSE

\* main.rs:164  the loop breaks if the flag reads true.
LoopBreaks(flag) == flag

\* Variant of LoopTop: the flag is looked at before the first request of a
\* window only.
LoopTop_ChecksOnce(w) ==
    /\ wstate[w] = "Running"
    /\ pc[w] = "top"
    /\ IF LoopBreaks(ctrl_c_received) /\ fetchCalls[w] = 0
       THEN /\ wstate' = [wstate EXCEPT ![w] = "Cancelled"]
            /\ worker' = [t \in Threads |-> IF worker[t] = w THEN 0 ELSE worker[t]]
            /\ pc' = pc
       ELSE /\ pc' = [pc EXCEPT ![w] = "fetch"]
            /\ UNCHANGED <<wstate, worker>>
    /\ UNCHANGED <<now, ctrl_c_received, mainpc, work_windows, current_epoch,
                   fetched, fetchCalls, persisted, files, api, archive, archiveCalls>>

\* main.rs:162-166  the flag check at the top of the loop.
LoopTop(w) ==
    /\ wstate[w] = "Running"
    /\ pc[w] = "top"
    /\ IF LoopBreaks(ctrl_c_received)
       THEN /\ wstate' = [wstate EXCEPT ![w] = "Cancelled"]
            /\ worker' = Release(w)
            /\ pc' = pc
       ELSE /\ pc' = [pc EXCEPT ![w] = "fetch"]
            /\ UNCHANGED <<wstate, worker>>
    /\ UNCHANGED <<now, ctrl_c_received, mainpc, work_windows, current_epoch,
                   fetched, fetchCalls, persisted, files, api, archive, archiveCalls>>

\* Variant of Fetch: the loop ends as exhausted once its cursor has reached
\* the end of its window.
Fetch_BoundedByEnd(w) ==
    /\ wstate[w] = "Running"
    /\ pc[w] = "fetch"
    /\ \E requestOk \in BOOLEAN, kind \in {"Empty", "Adv", "Stuck", "Bad"},
          io \in {"ok", "create_err", "write_err"} :
        /\ ApiAnswers(api, current_epoch[w], kind)
        /\ LET response ==
                   get_matches_since(current_epoch[w], kind, requestOk)
               after == LoopBody(current_epoch[w], response, io, files)
               state == IF /\ after.state = "Running"
                           /\ after.cursor >= work_windows[w].end_epoch
                        THEN "Exhausted" ELSE after.state
           IN  /\ api' = IF requestOk
                         THEN [api EXCEPT ![current_epoch[w]] = kind]
                         ELSE api
               /\ fetched' = [fetched EXCEPT ![w] = response]
               /\ fetchCalls' = [fetchCalls EXCEPT ![w] = Bump(@)]
               /\ wstate' = [wstate EXCEPT ![w] = state]
               /\ current_epoch' = [current_epoch EXCEPT ![w] = after.cursor]
               /\ files' = after.files
               /\ persisted' =
                      IF after.saved
                      THEN [persisted EXCEPT
                               ![w] = Record(@, response.matches)]
                      ELSE persisted
               /\ pc' = [pc EXCEPT ![w] = "top"]
               /\ worker' = IF state = "Running"
                            THEN worker
                            ELSE [t \in Threads |->
                                    IF worker[t] = w THEN 0 ELSE worker[t]]
    /\ UNCHANGED <<now, ctrl_c_received, mainpc, work_windows, archive,
                   archiveCalls>>

\* main.rs:169-193  one request and the handling of its response.
Fetch(w) ==
    /\ wstate[w] = "Running"
    /\ pc[w] = "fetch"
    /\ \E requestOk \in BOOLEAN, kind \in {"Empty", "Adv", "Stuck", "Bad"},
          io \in {"ok", "create_err", "write_err"} :
        /\ ApiAnswers(api, current_epoch[w], kind)
        /\ LET response ==
                   get_matches_since(current_epoch[w], kind, requestOk)
               after == LoopBody(current_epoch[w], response, io, files)
           IN  /\ api' = IF requestOk
                         THEN [api EXCEPT ![current_epoch[w]] = kind]
                         ELSE api
               /\ fetched' = [fetched EXCEPT ![w] = response]
               /\ fetchCalls' = [fetchCalls EXCEPT ![w] = Bump(@)]
               /\ wstate' = [wstate EXCEPT ![w] = after.state]
               /\ current_epoch' = [current_epoch EXCEPT ![w] = after.cursor]
               /\ files' = after.files
               /\ persisted' =
                      IF after.saved
                      THEN [persisted EXCEPT
                               ![w] = Record(@, response.matches)]
                      ELSE persisted
               /\ pc' = [pc EXCEPT ![w] = "top"]
               /\ worker' = IF after.state = "Running"
                            THEN worker ELSE Release(w)
    /\ UNCHANGED <<now, ctrl_c_received, mainpc, work_windows, archive,
                   archiveCalls>>

\* A panic ends the sequential leaf it happened in: the windows that
\* follow the panicking one in that leaf are never handed to the closure.
Abandon(w) ==
    /\ mainpc = "pool"
    /\ wstate[w] = "Pending"
    /\ w > 1
    /\ Panicked(w - 1) \/ wstate[w - 1] = "Abandoned"
    /\ wstate' = [wstate EXCEPT ![w] = "Abandoned"]
    /\ UNCHANGED <<now, ctrl_c_received, mainpc, work_windows, worker, pc,
                   current_epoch, fetched, fetchCalls, persisted, files, api, archive,
                   archiveCalls>>

\* Variant of PoolDrained: install returns once every window was handed
\* out, without waiting for the running closures.
PoolDrained_NoWait == \A w \in Windows : wstate[w] # "Pending"

\* pool.install returns (or resumes a panic) when no job is left.
PoolDrained ==
    /\ \A t \in Threads : worker[t] = 0
    /\ \A w \in Windows : wstate[w] # "Pending"

\* main.rs:230-236  the end of pool.install.
InstallReturns ==
    /\ mainpc = "pool"
    /\ PoolDrained
    /\ mainpc' = IF \E w \in Windows : Panicked(w) THEN "panicked" ELSE "zip"
    /\ UNCHANGED <<now, ctrl_c_received, work_windows, worker, wstate, pc,
                   current_epoch, fetched, fetchCalls, persisted, files, api, archive,
                   archiveCalls>>

\* main.rs:118-148 and 239-241  zip_matches archives every file of matches/.
Zip ==
    /\ mainpc = "zip"
    /\ archiveCalls' = archiveCalls + 1
    /\ \E zipOk \in BOOLEAN :
        IF zipOk
        THEN archive' = files /\ mainpc' = "done"
        ELSE archive' = archive /\ mainpc' = "failed"
    /\ UNCHANGED <<now, ctrl_c_received, work_windows, worker, wstate, pc,
                   current_epoch, fetched, fetchCalls, persisted, files, api>>

Next ==
    \/ Start
    \/ CtrlC
    \/ \E t \in Threads, w \in Windows : Dispatch(t, w)
    \/ \E w \in Windows : LoopTop(w)
    \/ \E w \in Windows : Fetch(w)
    \/ \E w \in Windows : Abandon(w)
    \/ InstallReturns
    \/ Zip

Spec == Init /\ [][Next]_vars

\* Scheduling: main goes on, an idle pool thread takes a waiting closure,
\* a running loop takes its next step, and every request returns.  The
\* signal may never come: no fairness for CtrlC.
Fairness ==
    /\ WF_vars(Start)
    /\ WF_vars(\E t \in Threads, w \in Windows : Dispatch(t, w))
    /\ \A w \in 1..MaxHours :
        /\ WF_vars(w \in Windows /\ LoopTop(w))
        /\ WF_vars(w \in Windows /\ Fetch(w))
        /\ WF_vars(w \in Windows /\ Abandon(w))
    /\ WF_vars(InstallReturns)
    /\ WF_vars(Zip)

FairSpec == Spec /\ Fairness

(* ------------------------------- claims -------------------------------- *)

\* The pages the remote API holds from `epoch` on, as far as it has been
\* asked: the Adv pages in order, up to the first epoch answered otherwise.
RECURSIVE StreamOf(_)
StreamOf(epoch) ==
    IF epoch \in Epochs /\ api[epoch] = "Adv"
    THEN <<Page("Adv", epoch)>> \o StreamOf(epoch + WINDOW_SIZE)
    ELSE <<>>

\* The epoch at which the stream from `epoch` ends.
StreamEnd(epoch) == epoch + Len(StreamOf(epoch)) * WINDOW_SIZE

\* The stream from `epoch` is B1..Blen followed by one empty page.
EndsEmpty(epoch) ==
    StreamEnd(epoch) \in Epochs /\ api[StreamEnd(epoch)] = "Empty"

\* Start epochs tried for the generator besides FIRST_EPOCH.
StartChoices ==
    {FIRST_EPOCH - 1, FIRST_EPOCH, FIRST_EPOCH + 1, FIRST_EPOCH + WINDOW_SIZE}

WellFormed(ws, startEpoch, clock) ==
    /\ \A i \in 1..Len(ws) : ws[i].end_epoch = ws[i].start_epoch + WINDOW_SIZE
    /\ \A i \in 1..(Len(ws) - 1) : ws[i + 1].start_epoch = ws[i].end_epoch
    /\ (Len(ws) = 0) <=> (startEpoch + WINDOW_SIZE >= clock)

\* C1: every generated window has end == start + WINDOW_SIZE, consecutive
\* windows are contiguous, and the sequence is empty iff
\* startEpoch + WINDOW_SIZE >= now (for the windows of the run, and for
\* every other start epoch tried against the same clock value).
C1_WindowsWellFormed ==
    Generated =>
        /\ work_windows = generate_work_windows(FIRST_EPOCH, now)
        /\ WellFormed(work_windows, FIRST_EPOCH, now)
        /\ \A s \in StartChoices :
               WellFormed(generate_work_windows(s, now), s, now)

\* C1 witness: a run whose generator returned two contiguous windows.
C1_Witness ==
    /\ Generated
    /\ Len(work_windows) = 2
    /\ work_windows[2].start_epoch = work_windows[1].end_epoch

\* The scenario of C2 as far as it can be run: the clock reads
\* FIRST_EPOCH + 7200, every window's stream is one page of PageLen
\* records followed by an empty page, no request fails, and no window is
\* cancelled or skipped.
C2_Scenario ==
    /\ now = 1669882894 + 7200
    /\ mainpc = "done"
    /\ \A w \in Windows :
        /\ Len(StreamOf(work_windows[w].start_epoch)) = 1
        /\ EndsEmpty(work_windows[w].start_epoch)
        /\ wstate[w] \notin {"Failed", "Cancelled", "Skipped"}

\* Sum of the numbers of batches persisted by the windows 1..n.
RECURSIVE PersistCalls(_)
PersistCalls(n) == IF n = 0 THEN 0 ELSE Len(persisted[n]) + PersistCalls(n - 1)

\* C2 as stated: the scenario yields exactly the two windows
\* [1669882894,1669886494] and [1669886494,1669890094], two persist calls
\* and one archive call that contains both batches.
C2_Original ==
    /\ (now = 1669882894 + 7200 /\ Generated) =>
            work_windows =
                <<[start_epoch |-> 1669882894, end_epoch |-> 1669886494],
                  [start_epoch |-> 1669886494, end_epoch |-> 1669890094]>>
    /\ C2_Scenario =>
            /\ PersistCalls(Len(work_windows)) = 2
            /\ archiveCalls = 1
            /\ Cardinality(archive) = 2

\* C2 amended: with now = FIRST_EPOCH + 7200 generation yields exactly one
\* window, [1669882894,1669886494] (the end of the second one equals now);
\* with one PageLen-record batch then an empty page for it, the run
\* performs exactly one persist call and then one archive call, whose
\* archive holds exactly that batch.
C2_OneWindow ==
    /\ (now = 1669882894 + 7200 /\ Generated) =>
            work_windows =
                <<[start_epoch |-> 1669882894, end_epoch |-> 1669886494]>>
    /\ C2_Scenario =>
            /\ PersistCalls(Len(work_windows)) = 1
            /\ Len(persisted[1][1]) = PageLen
            /\ fetchCalls[1] = 2
            /\ archiveCalls = 1
            /\ archive =
                {[name |-> <<1669882894 + WINDOW_SIZE \div PageLen, 1669886494>>,
                  content |-> persisted[1][1]]}

\* C2 witness: the scenario has been run to the end.
C2_Witness ==
    /\ C2_Scenario
    /\ Len(work_windows) = 1
    /\ Len(persisted[1]) = 1
    /\ archiveCalls = 1

\* C3: a window whose stream is len non-empty batches followed by one
\* empty page, with no request failing, the flag never observed and every
\* persist succeeding, ends Exhausted after exactly len+1 fetch calls with
\* exactly those len batches persisted; until then it has fetched at most
\* len+1 times.
C3_ExactPagination ==
    \A w \in Windows :
        LET start == work_windows[w].start_epoch
            len == Len(StreamOf(start))
        IN  (/\ EndsEmpty(start)
             /\ len + 1 < MaxCount
             /\ wstate[w] \notin {"Cancelled", "Failed", "IoError"})
            => /\ fetchCalls[w] <= len + 1
               /\ Terminal(w) =>
                    /\ wstate[w] = "Exhausted"
                    /\ fetchCalls[w] = len + 1
                    /\ persisted[w] = StreamOf(start)
                    /\ current_epoch[w] = StreamEnd(start)

\* C3 witness: a window ended Exhausted after two batches and three
\* fetches.
C3_Witness ==
    \E w \in Windows :
        /\ wstate[w] = "Exhausted"
        /\ EndsEmpty(work_windows[w].start_epoch)
        /\ Len(StreamOf(work_windows[w].start_epoch)) = 2
        /\ Len(persisted[w]) = 2
        /\ fetchCalls[w] = 3

\* C4: a loop that reads the flag set at its loop-top check moves to
\* Cancelled without fetching or persisting; a Cancelled loop never changes
\* again; and no step removes a file from matches/.
C4_CancelledStops ==
    [][\A w \in Windows :
        /\ (/\ wstate[w] = "Running"
            /\ pc[w] = "top"
            /\ ctrl_c_received
            /\ <<wstate[w], pc[w]>>' # <<wstate[w], pc[w]>>)
           => /\ wstate'[w] = "Cancelled"
              /\ fetchCalls'[w] = fetchCalls[w]
              /\ persisted'[w] = persisted[w]
        /\ wstate[w] = "Cancelled"
           => /\ wstate'[w] = "Cancelled"
              /\ fetchCalls'[w] = fetchCalls[w]
              /\ persisted'[w] = persisted[w]
              /\ current_epoch'[w] = current_epoch[w]
        /\ \A f \in files : \E g \in files' : g.name = f.name]_vars

\* C4 witness: a loop was cancelled after it had persisted a batch, and
\* the file of that batch is in matches/.
C4_Witness ==
    \E w \in Windows :
        /\ wstate[w] = "Cancelled"
        /\ Len(persisted[w]) >= 1
        /\ \E f \in files : f.name = FileName(persisted[w][1])

\* No pagination loop has started, nothing was fetched, nothing persisted.
NoLoopStarted ==
    /\ \A w \in Windows :
        /\ wstate[w] \in {"Pending", "Skipped"}
        /\ fetchCalls[w] = 0
        /\ persisted[w] = <<>>
    /\ files = {}

\* C5: once the flag is set while no loop has been started, no loop is
\* ever started: the run issues no fetch and no persist.
C5_NoDispatchAfterCancel ==
    [][(ctrl_c_received /\ NoLoopStarted) => NoLoopStarted']_vars

\* C5 witness: the flag was set before any dispatch, both windows were
\* skipped and the run ended with an archive of nothing.
C5_Witness ==
    /\ ctrl_c_received
    /\ NoLoopStarted
    /\ Len(work_windows) = 2
    /\ \A w \in Windows : wstate[w] = "Skipped"
    /\ mainpc = "done"
    /\ archive = {}

\* The latest request of window w failed.
FetchErrorIn(w) == fetchCalls[w] > 0 /\ ~fetched[w].ok

\* C6: a fetch error in window W does not stop the run (some step stays
\* possible until the process exits), does not make W panic, and every
\* other window V whose own fetches succeed (stream of batches ending in
\* an empty page, not cancelled, no persistence failure) is Exhausted with
\* all of its batches persisted once the pool has drained; unless another
\* window panicked, the run goes on to the archive step.
C6_FetchErrorIsLocal ==
    \A W \in Windows :
        FetchErrorIn(W) =>
            /\ Exited \/ ENABLED Next
            /\ ~Panicked(W)
            /\ \A V \in Windows \ {W} :
                LET start == work_windows[V].start_epoch
                IN  (/\ PoolDrained
                     /\ ~FetchErrorIn(V)
                     /\ EndsEmpty(start)
                     /\ Len(StreamOf(start)) + 1 < MaxCount
                     /\ wstate[V] \notin
                            {"Cancelled", "Skipped", "IoError", "Abandoned"})
                    => /\ wstate[V] = "Exhausted"
                       /\ persisted[V] = StreamOf(start)
            /\ (\A V \in Windows : ~Panicked(V)) =>
                /\ mainpc # "panicked"
                /\ Exited => archiveCalls = 1

\* C6 witness: one window failed on a fetch error, another one was
\* exhausted with a batch persisted, and the archive step ran.
C6_Witness ==
    \E W, V \in Windows :
        /\ FetchErrorIn(W)
        /\ wstate[W] = "Failed"
        /\ wstate[V] = "Exhausted"
        /\ Len(persisted[V]) >= 1
        /\ mainpc = "done"
        /\ archiveCalls = 1

\* The archive step is about to run or has run.
ArchiveStarted == mainpc = "zip" \/ archiveCalls > 0

\* No loop is executing and every window was handed out.
AllLoopsOver ==
    /\ \A t \in Threads : worker[t] = 0
    /\ \A w \in Windows :
        wstate[w] \in {"Exhausted", "Cancelled", "Failed", "Skipped"}

\* C7 as stated: the archive step is invoked exactly once in every run,
\* and only after every dispatched loop is over (looked at in the runs in
\* which every end time parses).
C7_Original ==
    /\ (Exited /\ Generated /\ \A w \in Windows : wstate[w] # "ParsePanic")
            => archiveCalls = 1
    /\ ArchiveStarted => AllLoopsOver

\* C7 amended: the archive step is invoked at most once, only after every
\* dispatched loop has reached a terminal state, and nothing is fetched or
\* persisted once it has started; it is invoked exactly once in every run
\* whose pool drains without a panic (windows ended by exhaustion,
\* cancellation or fetch failure), and never in a run in which a loop
\* panicked (persistence failure or unparseable end time).
C7_ArchiveAfterDrain ==
    /\ [](/\ archiveCalls <= 1
          /\ ArchiveStarted => AllLoopsOver
          /\ (Exited /\ Generated /\ \A w \in Windows : ~Panicked(w))
                => archiveCalls = 1
          /\ (\E w \in Windows : Panicked(w))
                => archiveCalls = 0 /\ mainpc \in {"pool", "panicked"})
    /\ [][ArchiveStarted =>
            /\ fetchCalls' = fetchCalls
            /\ persisted' = persisted
            /\ files' = files
            /\ wstate' = wstate]_vars

\* C7 witness: the run ended with one archive call after one window had
\* failed and another one had been cancelled.
C7_Witness ==
    /\ mainpc = "done"
    /\ archiveCalls = 1
    /\ \E w \in Windows : wstate[w] = "Failed"
    /\ \E w \in Windows : wstate[w] = "Cancelled"

\* C8 as stated: after a persistence failure in some window, no window
\* that has not been dispatched yet is started.
C8_NoDispatchAfterIoError ==
    [][(\E p \in Windows : wstate[p] = "IoError") =>
            \A w \in Windows :
                wstate[w] = "Pending" => wstate'[w] # "Running"]_vars

\* C9 as stated: when an end time fails to parse, the run is not aborted
\* and the archive step still runs.
C9_ParseFailureIsLocal ==
    \A w \in Windows :
        wstate[w] = "ParsePanic" =>
            /\ mainpc # "panicked"
            /\ Exited => archiveCalls = 1

\* C10: at most POOL_SIZE pagination loops are executing, each on a pool
\* thread of its own.
C10_AtMostPoolSize ==
    /\ Cardinality({w \in Windows : wstate[w] = "Running"}) <= POOL_SIZE
    /\ \A w \in Windows :
        wstate[w] = "Running" <=> \E t \in Threads : worker[t] = w

\* C10 witness: every pool thread runs a loop while a window is waiting.
C10_Witness ==
    /\ Cardinality({w \in Windows : wstate[w] = "Running"}) = POOL_SIZE
    /\ \E w \in Windows : wstate[w] = "Pending"

\* The loops that have passed the flag check of their current iteration
\* and have not yet received the answer to its request.
InFlight == {w \in Windows : wstate[w] = "Running" /\ pc[w] = "fetch"}

\* The loop of window w issues a request and handles its response.
FetchStep(w) == w \in InFlight /\ pc'[w] = "top"

\* The cursor a loop holds after it has persisted the batch `matches`.
CursorAfter(matches) == human_to_unix_epoch(matches[Len(matches)].end_time)

\* The first n non-empty batches the remote API delivers to a loop that
\* starts at `epoch` and follows its cursor, as far as the API has been
\* asked: each batch is the page for the end time of the last record of
\* the batch before it.
RECURSIVE Delivered(_, _)
Delivered(epoch, n) ==
    IF n = 0 \/ epoch \notin Epochs \/ api[epoch] \in {"Unknown", "Empty"}
    THEN <<>>
    ELSE LET page == Page(api[epoch], epoch)
         IN  <<page>> \o
                (IF ParseOk(page[Len(page)].end_time)
                 THEN Delivered(CursorAfter(page), n - 1)
                 ELSE <<>>)

\* C11: fetch, persist and advance are strictly sequential within one
\* window's loop: whenever the loop is about to fetch again, every batch it
\* fetched so far has been persisted and the cursor is the last end time of
\* the latest one (the window's start before the first fetch); and in every
\* reachable state the batches persisted for a window are a prefix of the
\* non-empty batches its fetch stream delivers: the n batches persisted
\* are the first n batches delivered.
C11_PersistedIsPrefix ==
    /\ [](\A w \in Windows :
          /\ persisted[w] =
                  Delivered(work_windows[w].start_epoch, Len(persisted[w]))
          /\ (wstate[w] = "Running" /\ fetchCalls[w] < MaxCount) =>
                  /\ Len(persisted[w]) = fetchCalls[w]
                  /\ fetched[w] =
                          IF fetchCalls[w] = 0
                          THEN NoResponse
                          ELSE [ok |-> TRUE,
                                matches |-> persisted[w][Len(persisted[w])]]
                  /\ current_epoch[w] =
                          IF fetchCalls[w] = 0
                          THEN work_windows[w].start_epoch
                          ELSE CursorAfter(persisted[w][Len(persisted[w])])
          /\ (Terminal(w) /\ fetchCalls[w] < MaxCount) =>
                  Len(persisted[w]) \in {fetchCalls[w] - 1, fetchCalls[w]})
    /\ [][\A w \in Windows :
            (FetchStep(w) /\ fetchCalls[w] \in 1..(MaxCount - 1)) =>
                /\ Len(persisted[w]) = fetchCalls[w]
                /\ current_epoch[w] =
                        CursorAfter(persisted[w][Len(persisted[w])])]_vars

\* C11 witness: a loop ended by a fetch failure holds a strict prefix of
\* its stream: one batch persisted where the API delivers two.
C11_Witness ==
    \E w \in Windows :
        /\ wstate[w] = "Failed"
        /\ Len(persisted[w]) = 1
        /\ Len(Delivered(work_windows[w].start_epoch, MaxCount)) = 2

\* Window w completes a loop iteration that fetched a non-empty batch and
\* went on to the next flag check.
IteratesWithBatch(w) ==
    /\ wstate[w] = "Running" /\ pc[w] = "fetch"
    /\ wstate'[w] = "Running" /\ pc'[w] = "top"
    /\ fetched'[w].ok
    /\ Len(fetched'[w].matches) > 0

\* C12 as stated: a window's cursor starts at the window's start, and after
\* every iteration that fetched a non-empty batch the new cursor is
\* strictly greater than the cursor used for that fetch.
C12_CursorStrictlyForward ==
    [][\A w \in Windows :
        /\ (wstate[w] = "Pending" /\ wstate'[w] = "Running")
                => current_epoch'[w] = work_windows[w].start_epoch
        /\ IteratesWithBatch(w) => current_epoch'[w] > current_epoch[w]]_vars

\* C13: after the flag is set the run issues at most POOL_SIZE further
\* requests: at most POOL_SIZE loops are between their flag check and their
\* request, and once the flag is set every request is made by one of those
\* loops, which then leaves that set, and no loop enters it.
C13_AtMostPoolSizeAfterCancel ==
    /\ [](Cardinality(InFlight) <= POOL_SIZE)
    /\ [][ctrl_c_received =>
            /\ InFlight' \subseteq InFlight
            /\ \A w \in Windows : FetchStep(w) => w \notin InFlight'
            /\ \A w \in Windows \ InFlight :
                    fetchCalls'[w] = fetchCalls[w]]_vars

\* C13 witness: the flag is set while every pool thread is between its
\* flag check and its request, and a window is still waiting.
C13_Witness ==
    /\ ctrl_c_received
    /\ Cardinality(InFlight) = POOL_SIZE
    /\ \E w \in Windows : wstate[w] = "Pending"

\* The instants looked at for coverage: around every window boundary, in
\* the middle of every window size, and just before the clock value.
Instants(clock) ==
    {t \in {FIRST_EPOCH + k * WINDOW_SIZE + d :
                k \in 0..(MaxHours + 1),
                d \in {-1, 0, 1, WINDOW_SIZE \div 2}} \cup {clock - 1} :
        FIRST_EPOCH <= t /\ t < clock}

\* The instant t lies inside one of the windows ws.
Covered(t, ws) ==
    \E i \in 1..Len(ws) : ws[i].start_epoch <= t /\ t <= ws[i].end_epoch

\* C14 as stated: the first window starts at FIRST_EPOCH and every instant
\* t with FIRST_EPOCH <= t < now lies inside some generated window.
C14_Original ==
    Generated =>
        /\ Len(work_windows) > 0 => work_windows[1].start_epoch = FIRST_EPOCH
        /\ \A t \in Instants(now) : Covered(t, work_windows)

\* C14 amended: with n the number of generated windows, the first window
\* (if any) starts at FIRST_EPOCH and the windows cover exactly the
\* instants from FIRST_EPOCH to lastEnd = FIRST_EPOCH + n * WINDOW_SIZE;
\* lastEnd < now <= lastEnd + WINDOW_SIZE, so the instants after lastEnd and
\* before now, at most WINDOW_SIZE - 1 of them, lie in no window (every
\* instant before now, when n = 0).
C14_CoversUpToLastEnd ==
    [](Generated =>
          LET n == Len(work_windows)
              lastEnd == FIRST_EPOCH + n * WINDOW_SIZE
          IN  /\ n > 0 =>
                  /\ work_windows[1].start_epoch = FIRST_EPOCH
                  /\ work_windows[n].end_epoch = lastEnd
              /\ lastEnd < now
              /\ now <= lastEnd + WINDOW_SIZE
              /\ \A t \in Instants(now) :
                      Covered(t, work_windows) <=> (n > 0 /\ t <= lastEnd))

\* C14 witness: one window was generated and a whole window size of
\* instants before now follows its end.
C14_Witness ==
    /\ Generated
    /\ Len(work_windows) = 1
    /\ now = work_windows[1].end_epoch + WINDOW_SIZE
    /\ ~Covered(now - 1, work_windows)

\* The window generation would try after having emitted ws from startEpoch.
NextWindow(ws, startEpoch) ==
    generate_work_window(IF Len(ws) = 0 THEN startEpoch
                         ELSE ws[Len(ws)].end_epoch)

StopsAtFirstNotPast(ws, startEpoch, clock) ==
    /\ \A i \in 1..Len(ws) : ws[i].end_epoch < clock
    /\ NextWindow(ws, startEpoch).end_epoch >= clock

\* C15: every emitted window has end < now, and the window that would
\* follow the last emitted one (the first window, when none is emitted) has
\* end >= now (for the windows of the run, and for every other start epoch
\* tried against the same clock value).
C15_StopsAtFirstNotPast ==
    [](Generated =>
          /\ StopsAtFirstNotPast(work_windows, FIRST_EPOCH, now)
          /\ \A s \in StartChoices :
                 StopsAtFirstNotPast(generate_work_windows(s, now), s, now))

\* C15 witness: one window was emitted and the next one would end exactly
\* at now.
C15_Witness ==
    /\ Generated
    /\ Len(work_windows) = 1
    /\ work_windows[1].end_epoch < now
    /\ NextWindow(work_windows, FIRST_EPOCH).end_epoch = now

\* The batch keys (file names) under which the loop of window w persisted.
KeysOf(w) == {FileName(persisted[w][i]) : i \in 1..Len(persisted[w])}

\* C16 as stated: batches persisted by the loops of two different windows
\* never use the same batch key (first end time, last end time); looked at
\* in the runs in which every non-empty page moves the cursor forward.
C16_KeysDisjoint ==
    (\A e \in Epochs : api[e] # "Stuck") =>
        \A v, w \in Windows : v # w => KeysOf(v) \cap KeysOf(w) = {}

\* C17: the loop never compares its cursor with the end of its window: a
\* request that returns a non-empty batch which is saved leaves the loop
\* Running with the cursor on the batch's last end time, also when the
\* cursor was at or past window.end_epoch; and a request ends the loop as
\* Exhausted exactly when it returned an empty page.
C17_NotBoundedByWindowEnd ==
    [][\A w \in Windows :
        FetchStep(w) =>
            /\ (wstate'[w] = "Exhausted")
                    <=> (fetched'[w].ok /\ Len(fetched'[w].matches) = 0)
            /\ (/\ fetched'[w].ok
                /\ Len(fetched'[w].matches) > 0
                /\ ~Panicked(w)')
               => /\ wstate'[w] = "Running"
                  /\ current_epoch'[w] = CursorAfter(fetched'[w].matches)
                  /\ persisted'[w] = Record(persisted[w], fetched'[w].matches)]_vars

\* C17 witness: a Running loop has persisted a batch all of whose records
\* end after the end of its window, and its cursor is past that end.
C17_Witness ==
    \E w \in Windows :
        /\ wstate[w] = "Running"
        /\ current_epoch[w] > work_windows[w].end_epoch
        /\ Len(persisted[w]) = 2
        /\ human_to_unix_epoch(persisted[w][2][1].end_time)
                > work_windows[w].end_epoch

\* C18: a request that returns an error moves the loop to Failed: nothing
\* is persisted or written in that iteration, the cursor stays at the
\* value used for the failing request, the loop returns normally (no
\* panic, its thread is free again); and a Failed loop issues no further
\* request and never changes again.
C18_FetchErrorStops ==
    [][\A w \in Windows :
        /\ (FetchStep(w) /\ ~fetched'[w].ok)
           => /\ wstate'[w] = "Failed"
              /\ ~Panicked(w)'
              /\ persisted' = persisted
              /\ files' = files
              /\ current_epoch'[w] = current_epoch[w]
              /\ \A t \in Threads : worker'[t] # w
        /\ wstate[w] = "Failed"
           => /\ wstate'[w] = "Failed"
              /\ fetchCalls'[w] = fetchCalls[w]
              /\ fetched'[w] = fetched[w]
              /\ persisted'[w] = persisted[w]
              /\ current_epoch'[w] = current_epoch[w]
              /\ \A t \in Threads : worker'[t] # w]_vars

\* C18 witness: a loop failed after one persisted batch, its cursor is
\* still the one of the failing request, and its thread runs the next
\* window.
C18_Witness ==
    \E w, v \in Windows :
        /\ wstate[w] = "Failed"
        /\ ~fetched[w].ok
        /\ fetchCalls[w] = 2
        /\ Len(persisted[w]) = 1
        /\ current_epoch[w] = CursorAfter(persisted[w][1])
        /\ wstate[v] = "Running"
        /\ fetchCalls[v] >= 1

\* Everything but the flag.
AllButFlag ==
    <<now, mainpc, work_windows, worker, wstate, pc, current_epoch, fetched,
      fetchCalls, persisted, files, api, archive, archiveCalls>>

\* C19: the flag is false when the run starts; a step that changes it
\* stores true and does nothing else (it is the signal task's store, not a
\* step of a worker, of the scheduler or of the archive step); and once
\* true the flag stays true.
C19_FlagWriteOnce ==
    /\ [](mainpc = "start" => ~ctrl_c_received)
    /\ [][/\ ctrl_c_received => ctrl_c_received'
          /\ ctrl_c_received' # ctrl_c_received =>
                /\ ctrl_c_received' = TRUE
                /\ AllButFlag' = AllButFlag]_vars

\* C19 witness: the flag was set while a loop was running, the loop was
\* cancelled, another window was skipped, the archive step ran, and the
\* flag is still true at the end of the run.
C19_Witness ==
    /\ ctrl_c_received
    /\ mainpc = "done"
    /\ \E w \in Windows : wstate[w] = "Cancelled" /\ fetchCalls[w] >= 1
    /\ \E w \in Windows : wstate[w] = "Skipped"

\* C20 as stated: under fair scheduling, with every request returning,
\* every loop that was started eventually reaches a terminal state, and the
\* run eventually reaches the archive step (or has ended before it), also
\* when the flag is never set.
C20_LoopsTerminate ==
    /\ \A w \in 1..MaxHours :
            (w \in Windows /\ wstate[w] = "Running")
                ~> (w \in Windows /\ Terminal(w))
    /\ <>(ArchiveStarted \/ Exited)

====
